---- MODULE Spec2Model ----
(***************************************************************************)
(* Model of the configuration-driven ETL converter                         *)
(* (src/config_driven_converter.py, class ConfigDrivenETLConverter).       *)
(*                                                                         *)
(* Python text is a sequence of one-character strings, so that substring   *)
(* tests, slicing, parsing and formatting are computed and not assumed.    *)
(* Field names (dictionary keys, column names) are only compared for       *)
(* equality by the code and are plain TLA+ strings.                        *)
(***************************************************************************)
EXTENDS Integers, Sequences, FiniteSets, TLC

(***************************************************************************)
(* Bounds of the model                                                     *)
(***************************************************************************)
\* rows of the input table
MaxRows == 2
\* transformation rules of processing_rules
MaxRules == 2
\* condition entries of one rule's logic block
MaxConds == 2

(***************************************************************************)
(* Text                                                                    *)
(***************************************************************************)
Digits == <<"0","1","2","3","4","5","6","7","8","9">>

IsDigit(c) == \E i \in 1..10 : Digits[i] = c

DigitVal(c) == (CHOOSE i \in 1..10 : Digits[i] = c) - 1

\* str.isspace for the characters of the model's alphabet
IsSpace(c) == c \in {" ", "\n", "\r"}

\* needle in hay, for Python strings
Contains(needle, hay) ==
    \E i \in 0..(Len(hay) - Len(needle)) :
        \A j \in 1..Len(needle) : hay[i + j] = needle[j]

\* s[:n]
Prefix(s, n) == SubSeq(s, 1, IF Len(s) < n THEN Len(s) ELSE n)

RECURSIVE LStrip(_)
LStrip(s) == IF s # <<>> /\ IsSpace(Head(s)) THEN LStrip(Tail(s)) ELSE s

RECURSIVE RStrip(_)
RStrip(s) ==
    IF s # <<>> /\ IsSpace(s[Len(s)]) THEN RStrip(SubSeq(s, 1, Len(s) - 1)) ELSE s

\* str.strip()
Strip(s) == RStrip(LStrip(s))

\* int(s) for a string of decimal digits
RECURSIVE DigitsToInt(_)
DigitsToInt(s) ==
    IF s = <<>> THEN 0
    ELSE 10 * DigitsToInt(SubSeq(s, 1, Len(s) - 1)) + DigitVal(s[Len(s)])

AllDigits(s) == \A i \in 1..Len(s) : IsDigit(s[i])

\* str(n) for a natural number
RECURSIVE NatToStr(_)
NatToStr(n) ==
    IF n < 10 THEN <<Digits[n + 1]>>
    ELSE NatToStr(n \div 10) \o <<Digits[(n % 10) + 1]>>

\* "%02d" % n
Pad2(n) == IF n < 10 THEN <<"0">> \o NatToStr(n) ELSE NatToStr(n)

(***************************************************************************)
(* Values of a row: Python str, float and float('nan') (pandas' marker of  *)
(* a missing cell).  Row: a pandas Series, a function from the table's     *)
(* columns to values.  A float is its integral value n; the float -0.0 is  *)
(* n = 0 with the sign kept in s, since it equals 0.0 but prints as -0.0.  *)
(***************************************************************************)
StrV(s) == [k |-> "str", s |-> s, n |-> 0]
NumV(n) == [k |-> "num", s |-> <<>>, n |-> n]
NaN == [k |-> "nan", s |-> <<>>, n |-> 0]

\* the literals '' and 0 used as defaults of row.get
EmptyStr == StrV(<<>>)
Zero == NumV(0)

\* bool(value)
Truthy(v) ==
    CASE v.k = "str" -> v.s # <<>>
      [] v.k = "num" -> v.n # 0
      [] OTHER -> TRUE

\* str(value); a float prints with its fraction, float('nan') prints nan
Str(v) ==
    CASE v.k = "str" -> v.s
      [] v.k = "num" ->
            (IF v.n < 0 \/ v.s # <<>> THEN <<"-">> ELSE <<>>)
            \o NatToStr(IF v.n < 0 THEN -v.n ELSE v.n) \o <<".","0">>
      [] OTHER -> <<"n","a","n">>

\* pd.isna(value)
IsNa(v) == v.k = "nan"

\* row.get(field, default)
RowGet(row, field, default) ==
    IF field \in DOMAIN row THEN row[field] ELSE default

\* float comparisons; every comparison with nan is false
Lt0(f) == f.k = "num" /\ f.n < 0
Ge0(f) == f.k = "num" /\ f.n >= 0

\* abs(f); abs(-0.0) is 0.0
Abs(f) == IF f.k = "num" THEN NumV(IF f.n < 0 THEN -f.n ELSE f.n) ELSE f

\* float(text): surrounding whitespace stripped, an optional sign, then
\* decimal digits or nan in any letter case; anything else is a ValueError.
\* A minus sign before a zero gives -0.0.
\* (Text with a fraction, an exponent, underscores or inf is outside the
\* alphabet of the input pools.)
ValueError == [k |-> "ValueError", s |-> <<>>, n |-> 0]

Lower(c) == IF c = "N" THEN "n" ELSE IF c = "A" THEN "a" ELSE c

\* float of text without surrounding whitespace and sign
FloatOfUnsigned(body) ==
    IF body # <<>> /\ AllDigits(body) THEN NumV(DigitsToInt(body))
    ELSE IF [i \in 1..Len(body) |-> Lower(body[i])] = <<"n","a","n">> THEN NaN
    ELSE ValueError

\* the sign "-" before the digits or nan; "-0" is the float -0.0
Negated(f) ==
    IF f.k = "num"
        THEN [k |-> "num", s |-> IF f.n = 0 /\ f.s = <<>> THEN <<"-">> ELSE <<>>, n |-> -f.n]
    ELSE f

FloatOfStripped(t) ==
    IF t # <<>> /\ Head(t) = "-" THEN Negated(FloatOfUnsigned(Tail(t)))
    ELSE IF t # <<>> /\ Head(t) = "+" THEN FloatOfUnsigned(Tail(t))
    ELSE FloatOfUnsigned(t)

FloatOfText(text) == FloatOfStripped(Strip(text))

\* except (ValueError, TypeError): return 0.0
OrZero(f) == IF f = ValueError THEN Zero ELSE f

\* float(value) if value else 0.0, a ValueError giving 0.0; nan is truthy and
\* float(nan) is nan, so a missing cell stays nan
safe_float_conversion(value) ==
    IF ~Truthy(value) THEN Zero
    ELSE IF value.k = "str" THEN OrZero(FloatOfText(value.s))
    ELSE value

(***************************************************************************)
(* Condition Evaluator                                                     *)
(***************************************************************************)
\* CURRENCY_Cosmos == 'JPY' AND PRODUCT_TYPE IN ['D', 'G']
PAT_JPY_DG ==
    <<"C","U","R","R","E","N","C","Y","_","C","o","s","m","o","s"," ","=","="," ","'","J","P","Y","'"," ","A","N","D"," ","P","R","O","D","U","C","T","_","T","Y","P","E"," ","I","N"," ","[","'","D","'",","," ","'","G","'","]">>
\* CURRENCY_Cosmos == 'JPY' AND PRODUCT_TYPE NOT IN ['D', 'G']
PAT_JPY_OTHER ==
    <<"C","U","R","R","E","N","C","Y","_","C","o","s","m","o","s"," ","=","="," ","'","J","P","Y","'"," ","A","N","D"," ","P","R","O","D","U","C","T","_","T","Y","P","E"," ","N","O","T"," ","I","N"," ","[","'","D","'",","," ","'","G","'","]">>
\* CURRENCY_Cosmos != 'JPY' AND PRODUCT_TYPE IN ['D', 'G']
PAT_NOJPY_DG ==
    <<"C","U","R","R","E","N","C","Y","_","C","o","s","m","o","s"," ","!","="," ","'","J","P","Y","'"," ","A","N","D"," ","P","R","O","D","U","C","T","_","T","Y","P","E"," ","I","N"," ","[","'","D","'",","," ","'","G","'","]">>
\* CURRENCY_Cosmos != 'JPY' AND PRODUCT_TYPE NOT IN ['D', 'G']
PAT_NOJPY_OTHER ==
    <<"C","U","R","R","E","N","C","Y","_","C","o","s","m","o","s"," ","!","="," ","'","J","P","Y","'"," ","A","N","D"," ","P","R","O","D","U","C","T","_","T","Y","P","E"," ","N","O","T"," ","I","N"," ","[","'","D","'",","," ","'","G","'","]">>
\* Currency_Flex == 'JPY'
PAT_FLEX_JPY ==
    <<"C","u","r","r","e","n","c","y","_","F","l","e","x"," ","=","="," ","'","J","P","Y","'">>
\* Currency_Flex != 'JPY'
PAT_FLEX_NOJPY ==
    <<"C","u","r","r","e","n","c","y","_","F","l","e","x"," ","!","="," ","'","J","P","Y","'">>
\* CONTRACT_STATUS == 'Y' AND FACE_VALUE >= 0
PAT_Y_GE ==
    <<"C","O","N","T","R","A","C","T","_","S","T","A","T","U","S"," ","=","="," ","'","Y","'"," ","A","N","D"," ","F","A","C","E","_","V","A","L","U","E"," ",">","="," ","0">>
\* CONTRACT_STATUS == 'Y' AND FACE_VALUE < 0
PAT_Y_LT ==
    <<"C","O","N","T","R","A","C","T","_","S","T","A","T","U","S"," ","=","="," ","'","Y","'"," ","A","N","D"," ","F","A","C","E","_","V","A","L","U","E"," ","<"," ","0">>
\* CONTRACT_STATUS == 'A' AND FACE_VALUE >= 0
PAT_A_GE ==
    <<"C","O","N","T","R","A","C","T","_","S","T","A","T","U","S"," ","=","="," ","'","A","'"," ","A","N","D"," ","F","A","C","E","_","V","A","L","U","E"," ",">","="," ","0">>
\* CONTRACT_STATUS == 'A' AND FACE_VALUE < 0
PAT_A_LT ==
    <<"C","O","N","T","R","A","C","T","_","S","T","A","T","U","S"," ","=","="," ","'","A","'"," ","A","N","D"," ","F","A","C","E","_","V","A","L","U","E"," ","<"," ","0">>

InDG(v) == v = StrV(<<"D">>) \/ v = StrV(<<"G">>)

\* the chain of substring tests, on the five values read from the row
ConditionChain(condition, currency_cosmos, currency_flex, product_type, contract_status, face_value) ==
        IF Contains(PAT_JPY_DG, condition)
            THEN currency_cosmos = StrV(<<"J","P","Y">>) /\ InDG(product_type)
        ELSE IF Contains(PAT_JPY_OTHER, condition)
            THEN currency_cosmos = StrV(<<"J","P","Y">>) /\ ~InDG(product_type)
        ELSE IF Contains(PAT_NOJPY_DG, condition)
            THEN currency_cosmos # StrV(<<"J","P","Y">>) /\ InDG(product_type)
        ELSE IF Contains(PAT_NOJPY_OTHER, condition)
            THEN currency_cosmos # StrV(<<"J","P","Y">>) /\ ~InDG(product_type)
        ELSE IF Contains(PAT_FLEX_JPY, condition)
            THEN currency_flex = StrV(<<"J","P","Y">>)
        ELSE IF Contains(PAT_FLEX_NOJPY, condition)
            THEN currency_flex # StrV(<<"J","P","Y">>)
        ELSE IF Contains(PAT_Y_GE, condition)
            THEN contract_status = StrV(<<"Y">>) /\ Ge0(face_value)
        ELSE IF Contains(PAT_Y_LT, condition)
            THEN contract_status = StrV(<<"Y">>) /\ Lt0(face_value)
        ELSE IF Contains(PAT_A_GE, condition)
            THEN contract_status = StrV(<<"A">>) /\ Ge0(face_value)
        ELSE IF Contains(PAT_A_LT, condition)
            THEN contract_status = StrV(<<"A">>) /\ Lt0(face_value)
        ELSE FALSE

evaluate_condition(row, condition) ==
    ConditionChain(condition,
                   RowGet(row, "CURRENCY_Cosmos", EmptyStr),
                   RowGet(row, "Currency_Flex", EmptyStr),
                   RowGet(row, "PRODUCT_TYPE", EmptyStr),
                   RowGet(row, "CONTRACT_STATUS", EmptyStr),
                   safe_float_conversion(RowGet(row, "FACE_VALUE", Zero)))

(***************************************************************************)
(* What a handler hands back: a scalar, a field group (dict), None, or a   *)
(* raised exception (a KeyError on a key the configuration entry lacks).   *)
(***************************************************************************)
NoFields == [f \in {} |-> EmptyStr]

Scalar(v) == [t |-> "scalar", v |-> v, d |-> NoFields]
Group(d) == [t |-> "dict", v |-> EmptyStr, d |-> d]
None == [t |-> "none", v |-> EmptyStr, d |-> NoFields]
Raise == [t |-> "raise", v |-> EmptyStr, d |-> NoFields]

(***************************************************************************)
(* A condition entry of a logic block: its condition text, and the keys    *)
(* action / value / source_field that the entry carries (keys); reading a  *)
(* key the entry lacks raises KeyError.                                    *)
(***************************************************************************)
Entry(condition, keys, action, value, source_field) ==
    [condition |-> condition, keys |-> keys, action |-> action,
     value |-> value, source_field |-> source_field]

\* index of the first entry, from i on, whose condition holds on the row;
\* Len(conditions) + 1 when there is none
RECURSIVE FirstMatch(_, _, _)
FirstMatch(row, conditions, i) ==
    IF i > Len(conditions) THEN i
    ELSE IF evaluate_condition(row, conditions[i].condition) THEN i
    ELSE FirstMatch(row, conditions, i + 1)

\* the loop of calculate_leaf_gl_from_config from entry i on: a matching
\* entry whose action names no suffix returns nothing, and the loop goes on
RECURSIVE LeafGlLoop(_, _, _)
LeafGlLoop(row, conditions, i) ==
    LET leaf_gl == RowGet(row, "LEAF_GL", EmptyStr)
    IN  IF i > Len(conditions) THEN Scalar(leaf_gl)
        ELSE IF evaluate_condition(row, conditions[i].condition)
            THEN IF "action" \notin conditions[i].keys THEN Raise
                 ELSE IF Contains(<<"J","P","Y","_","D","_","G">>, conditions[i].action)
                     THEN Scalar(StrV(Str(leaf_gl) \o <<"_","J","P","Y","_","D","_","G">>))
                 ELSE IF Contains(<<"J","P","Y","_","O","T","H","E","R">>, conditions[i].action)
                     THEN Scalar(StrV(Str(leaf_gl) \o <<"_","J","P","Y","_","O","T","H","E","R">>))
                 ELSE IF Contains(<<"N","O","J","P","Y","_","D","_","G">>, conditions[i].action)
                     THEN Scalar(StrV(Str(leaf_gl) \o <<"_","N","O","J","P","Y","_","D","_","G">>))
                 ELSE IF Contains(<<"N","O","J","P","Y","_","O","T","H","E","R">>, conditions[i].action)
                     THEN Scalar(StrV(Str(leaf_gl) \o <<"_","N","O","J","P","Y","_","O","T","H","E","R">>))
                 ELSE LeafGlLoop(row, conditions, i + 1)
        ELSE LeafGlLoop(row, conditions, i + 1)

calculate_leaf_gl_from_config(row, rule) ==
    LeafGlLoop(row, rule.logic.conditions, 1)

\* the body of the accrual loop at its first matching entry i
AccrualAt(row, conditions, i) ==
    IF i > Len(conditions) THEN Scalar(EmptyStr)
    ELSE IF "source_field" \notin conditions[i].keys THEN Raise
    ELSE Scalar(StrV(Str(RowGet(row, conditions[i].source_field, EmptyStr))))

calculate_accrual_account_from_config(row, rule) ==
    AccrualAt(row, rule.logic.conditions, FirstMatch(row, rule.logic.conditions, 1))

\* rule['logic'].get('default_action', {})
DefaultAction(rule) ==
    IF rule.logic.has_default THEN rule.logic.default_action ELSE NoFields

\* the body of the debit/credit loop at its first matching entry i, and
\* what follows the loop
DrorcrAt(row, rule, conditions, i) ==
    IF i <= Len(conditions)
        THEN IF "value" \notin conditions[i].keys THEN Raise
             ELSE Scalar(conditions[i].value)
    ELSE IF DOMAIN DefaultAction(rule) # {}
        THEN Scalar(StrV(IF Ge0(safe_float_conversion(RowGet(row, "FACE_VALUE", Zero)))
                             THEN <<"C">> ELSE <<"D">>))
    ELSE Scalar(StrV(<<"C">>))

calculate_drorcr_from_config(row, rule) ==
    DrorcrAt(row, rule, rule.logic.conditions,
             FirstMatch(row, rule.logic.conditions, 1))

\* the amount both balance handlers compute
Amount(row) ==
    IF RowGet(row, "Currency_Flex", EmptyStr) = StrV(<<"J","P","Y">>)
        THEN safe_float_conversion(RowGet(row, "LCY_FACE_VALUE", Zero))
    ELSE safe_float_conversion(RowGet(row, "FACE_VALUE", Zero))

BalanceSigns(amount) ==
    Group([f \in {"OPBALSIGN", "CLBALSIGN"} |->
              StrV(IF Lt0(amount) THEN <<"D">> ELSE <<"C">>)])

calculate_balance_sign_from_config(row, rule) == BalanceSigns(Amount(row))

Amounts(amount) ==
    Group([f \in {"AMOUNT", "OPBAL", "CLBAL"} |->
              IF f = "AMOUNT" THEN Abs(amount) ELSE amount])

calculate_amounts_from_config(row, rule) == Amounts(Amount(row))

(***************************************************************************)
(* datetime.strptime(text, fmt).strftime('%Y%m%d')                         *)
(*                                                                         *)
(* A format is its sequence of directives and literal characters.  The     *)
(* library turns it into a regular expression, matches it at the start of  *)
(* the text with the alternatives of each directive tried in order and     *)
(* backtracking, and raises ValueError when text remains after the match   *)
(* or the fields are no calendar date.                                     *)
(*   %Y  \d\d\d\d                                                          *)
(*   %m  1[0-2] | 0[1-9] | [1-9]                                           *)
(*   %d  3[01] | [12]\d | 0[1-9] | [1-9] | " "[1-9]                        *)
(***************************************************************************)
NoMatch == [ok |-> FALSE, end |-> 0, Y |-> 0, m |-> 0, d |-> 0]

\* the characters text[p+1 .. p+n], <<>> when the text is too short
Chars(text, p, n) == IF p + n <= Len(text) THEN SubSeq(text, p + 1, p + n) ELSE <<>>

\* whether the n characters after position p match an alternative of the directive
DirectiveMatches(directive, text, p, n) ==
    LET c == Chars(text, p, n)
    IN  /\ c # <<>>
        /\ CASE directive = "%Y" ->
                    n = 4 /\ AllDigits(c)
             [] directive = "%m" ->
                    \/ n = 2 /\ c[1] = "1" /\ c[2] \in {"0", "1", "2"}
                    \/ n = 2 /\ c[1] = "0" /\ IsDigit(c[2]) /\ c[2] # "0"
                    \/ n = 1 /\ IsDigit(c[1]) /\ c[1] # "0"
             [] directive = "%d" ->
                    \/ n = 2 /\ c[1] = "3" /\ c[2] \in {"0", "1"}
                    \/ n = 2 /\ c[1] \in {"1", "2"} /\ IsDigit(c[2])
                    \/ n = 2 /\ c[1] = "0" /\ IsDigit(c[2]) /\ c[2] # "0"
                    \/ n = 1 /\ IsDigit(c[1]) /\ c[1] # "0"
                    \/ n = 2 /\ c[1] = " " /\ IsDigit(c[2]) /\ c[2] # "0"
             [] OTHER ->
                    n = 1 /\ c[1] = directive

\* the lengths a directive can take, in the order the alternatives are tried
Lengths(directive) ==
    CASE directive = "%Y" -> <<4>>
      [] directive \in {"%m", "%d"} -> <<2, 1>>
      [] OTHER -> <<1>>

\* the match of the rest, with this directive's field filled in
WithField(directive, field, rest) ==
    CASE directive = "%Y" -> [rest EXCEPT !.Y = field]
      [] directive = "%m" -> [rest EXCEPT !.m = field]
      [] directive = "%d" -> [rest EXCEPT !.d = field]
      [] OTHER -> rest

\* the first of two attempts that matched
OrElse(first, second) == IF first.ok THEN first ELSE second

RECURSIVE MatchFrom(_, _, _, _), TryLengths(_, _, _, _, _)
\* the first match, in backtracking order, of fmt[i..] against the text after p
MatchFrom(fmt, i, text, p) ==
    IF i > Len(fmt) THEN [NoMatch EXCEPT !.ok = TRUE, !.end = p]
    ELSE TryLengths(fmt, i, text, p, Lengths(fmt[i]))

TryLengths(fmt, i, text, p, lengths) ==
    IF lengths = <<>> THEN NoMatch
    ELSE IF DirectiveMatches(fmt[i], text, p, Head(lengths))
        THEN OrElse(WithField(fmt[i],
                              DigitsToInt(LStrip(Chars(text, p, Head(lengths)))),
                              MatchFrom(fmt, i + 1, text, p + Head(lengths))),
                    TryLengths(fmt, i, text, p, Tail(lengths)))
    ELSE TryLengths(fmt, i, text, p, Tail(lengths))

IsLeap(y) == y % 4 = 0 /\ (y % 100 # 0 \/ y % 400 = 0)

DaysInMonth(y, m) ==
    IF m = 2 THEN (IF IsLeap(y) THEN 29 ELSE 28)
    ELSE IF m \in {4, 6, 9, 11} THEN 30
    ELSE 31

\* the match as a date: no text left over, and a day of the calendar
Checked(found, text) ==
    IF /\ found.ok
       /\ found.end = Len(text)
       /\ found.Y >= 1
       /\ found.d <= DaysInMonth(found.Y, found.m)
        THEN found
    ELSE NoMatch

\* strptime: the parsed date, ok = FALSE for a ValueError
strptime(text, fmt) == Checked(MatchFrom(fmt, 1, text, 0), text)

\* dt.strftime('%Y%m%d'); the C library prints the year without padding
strftime(dt) == NatToStr(dt.Y) \o Pad2(dt.m) \o Pad2(dt.d)

\* return dt.strftime(...) / except ValueError: continue
Formatted(dt, otherwise) == IF dt.ok THEN strftime(dt) ELSE otherwise

\* the loop over the four formats of format_date, from format k on
RECURSIVE FormatLoop(_, _, _)
FormatLoop(text, fmts, k) ==
    IF k > Len(fmts) THEN Prefix(text, 8)
    ELSE Formatted(strptime(text, fmts[k]), FormatLoop(text, fmts, k + 1))

format_date(date_str) ==
    IF ~Truthy(date_str) \/ IsNa(date_str) THEN EmptyStr
    ELSE StrV(FormatLoop(Str(date_str),
                         << <<"%Y", "-", "%m", "-", "%d">>,     \* '%Y-%m-%d'
                            <<"%Y", "%m", "%d">>,               \* '%Y%m%d'
                            <<"%d", "/", "%m", "/", "%Y">>,     \* '%d/%m/%Y'
                            <<"%m", "/", "%d", "/", "%Y">> >>,  \* '%m/%d/%Y'
                         1))

format_dates_from_config(row, rule) ==
    LET date_mappings ==
            [f \in {"VALUEDATE", "ENTRYDATE", "OPBALDATE", "CLBALDATE"} |->
                IF f = "ENTRYDATE" THEN "DEAL_DATE" ELSE "VALUE_DATE"]
    IN  Group([f \in DOMAIN date_mappings |->
                  format_date(RowGet(row, date_mappings[f], EmptyStr))])

(***************************************************************************)
(* Rule Dispatcher                                                         *)
(***************************************************************************)
apply_transformation_rule(row, rule) ==
    CASE rule.rule_id = "LEAF_GL_CALCULATION" ->
            calculate_leaf_gl_from_config(row, rule)
      [] rule.rule_id = "ACCRUAL_ACCOUNT_LOGIC" ->
            calculate_accrual_account_from_config(row, rule)
      [] rule.rule_id = "DRORCR_CALCULATION" ->
            calculate_drorcr_from_config(row, rule)
      [] rule.rule_id = "BALANCE_SIGN_CALCULATION" ->
            calculate_balance_sign_from_config(row, rule)
      [] rule.rule_id = "DATE_FORMATTING" ->
            format_dates_from_config(row, rule)
      [] rule.rule_id = "AMOUNT_CALCULATION" ->
            calculate_amounts_from_config(row, rule)
      [] OTHER -> None

(***************************************************************************)
(* Field Mapper                                                            *)
(***************************************************************************)
apply_field_mapping(row, mapping) ==
    CASE mapping.transformation = "DIRECT_COPY" ->
            Scalar(RowGet(row, mapping.input_field, EmptyStr))
      [] mapping.transformation = "DEFAULT_VALUE" ->
            IF mapping.has_default THEN Scalar(mapping.default_value) ELSE Raise
      [] mapping.transformation = "STRING_CONVERSION" ->
            Scalar(StrV(Str(RowGet(row, mapping.input_field, EmptyStr))))
      [] OTHER -> Scalar(EmptyStr)

(***************************************************************************)
(* Row Transformer.  A dict is a function from its keys to values; Failed  *)
(* stands for an exception leaving transform_row.                          *)
(***************************************************************************)
\* dict.update(other)
Update(dict, other) ==
    [f \in DOMAIN dict \cup DOMAIN other |->
        IF f \in DOMAIN other THEN other[f] ELSE dict[f]]

Failed == [f \in {"!raised"} |-> EmptyStr]

\* what one rule's result does to the row being built
MergeResult(transformed, output_field, result) ==
    IF result.t = "raise" THEN Failed
    ELSE IF result.t = "dict" THEN Update(transformed, result.d)
    ELSE IF result.t = "scalar" /\ output_field # ""
        THEN Update(transformed, [f \in {output_field} |-> result.v])
    ELSE transformed

\* the loop over transformation_rules, from rule i on
RECURSIVE RulesLoop(_, _, _, _)
RulesLoop(row, rules, i, transformed) ==
    IF transformed = Failed \/ i > Len(rules) THEN transformed
    ELSE RulesLoop(row, rules, i + 1,
                   MergeResult(transformed, rules[i].output_field,
                               apply_transformation_rule(row, rules[i])))

\* transformed[output_field] = the mapping's value
SetField(transformed, output_field, result) ==
    IF result.t = "raise" THEN Failed
    ELSE Update(transformed, [f \in {output_field} |-> result.v])

\* the loop over field_mappings, from mapping i on
RECURSIVE MappingsLoop(_, _, _, _)
MappingsLoop(row, mappings, i, transformed) ==
    IF transformed = Failed \/ i > Len(mappings) THEN transformed
    ELSE MappingsLoop(row, mappings, i + 1,
                      SetField(transformed, mappings[i].output_field,
                               apply_field_mapping(row, mappings[i])))

\* output schema columns + additional_fields.fields
AllOutputFields(output_schema) ==
    output_schema.columns \cup output_schema.additional_fields

\* for field in all_output_fields: if field not in transformed: ... = ''
FillUnset(transformed, fields) ==
    IF transformed = Failed THEN Failed
    ELSE [f \in DOMAIN transformed \cup fields |->
             IF f \in DOMAIN transformed THEN transformed[f] ELSE EmptyStr]

\* a transformer that applies the field mappings before the rules
TransformMappingsFirst(row, processing_rules, output_schema) ==
    FillUnset(
        RulesLoop(row, processing_rules.transformation_rules, 1,
            MappingsLoop(row, processing_rules.field_mappings, 1, NoFields)),
        AllOutputFields(output_schema))

transform_row(row, processing_rules, output_schema) ==
    FillUnset(
        MappingsLoop(row, processing_rules.field_mappings, 1,
            RulesLoop(row, processing_rules.transformation_rules, 1, NoFields)),
        AllOutputFields(output_schema))

(***************************************************************************)
(* Validator.  A DataFrame is its column set and its sequence of rows;     *)
(* the log keeps the error and warning records, in order.                  *)
(***************************************************************************)
LogRecord(level, what) == [level |-> level, what |-> what]

\* set(df[field].dropna().unique())
ObservedValues(df, field) ==
    {df.rows[i][field] : i \in 1..Len(df.rows)} \ {NaN}

\* whether a currency or product-type rule finds a value outside its set
HasInvalidValues(df, rule) ==
    /\ rule.field \in df.columns
    /\ \E v \in ObservedValues(df, rule.field) :
          \* set difference by ==: -0.0 and 0.0 are one element
          \A w \in rule.valid_values :
              v # w /\ ~(v.k = "num" /\ w.k = "num" /\ v.n = w.n)

\* a validation rule, with a currency or product-type finding failing it
StrictValueRule(df, rule) ==
    CASE rule.rule_type = "required_fields" ->
            [ok |-> rule.fields \ df.columns = {},
             log |-> IF rule.fields \ df.columns # {}
                         THEN <<LogRecord("ERROR", "missing required fields")>>
                     ELSE <<>>]
      [] rule.rule_type \in {"currency_validation", "product_type_validation"} ->
            [ok |-> ~HasInvalidValues(df, rule),
             log |-> IF HasInvalidValues(df, rule)
                         THEN <<LogRecord("WARNING", "invalid values")>>
                     ELSE <<>>]
      [] OTHER -> [ok |-> TRUE, log |-> <<>>]

apply_validation_rule(df, rule) ==
    CASE rule.rule_type = "required_fields" ->
            IF rule.fields \ df.columns # {}
                THEN [ok |-> FALSE,
                      log |-> <<LogRecord("ERROR", "missing required fields")>>]
            ELSE [ok |-> TRUE, log |-> <<>>]
      [] rule.rule_type = "currency_validation" ->
            IF HasInvalidValues(df, rule)
                THEN [ok |-> TRUE,
                      log |-> <<LogRecord("WARNING", "invalid currency values")>>]
            ELSE [ok |-> TRUE, log |-> <<>>]
      [] rule.rule_type = "product_type_validation" ->
            IF HasInvalidValues(df, rule)
                THEN [ok |-> TRUE,
                      log |-> <<LogRecord("WARNING", "invalid product type values")>>]
            ELSE [ok |-> TRUE, log |-> <<>>]
      [] OTHER -> [ok |-> TRUE, log |-> <<>>]

\* the loop over validation_rules, from rule i on, stopping at the first
\* rule that fails
RECURSIVE ValidationRulesLoop(_, _, _, _)
ValidationRulesLoop(df, rules, i, log) ==
    IF i > Len(rules) THEN [ok |-> TRUE, log |-> log]
    ELSE LET r == apply_validation_rule(df, rules[i])
         IN  IF ~r.ok THEN [ok |-> FALSE, log |-> log \o r.log]
             ELSE ValidationRulesLoop(df, rules, i + 1, log \o r.log)

\* dict.get(key, default), for a schema and for a column of a schema
ColumnGet(column, key, default) ==
    IF key \in DOMAIN column THEN column[key] ELSE default

\* [col['name'] for col in columns if col.get('required', False)]
RequiredColumns(schema) ==
    {schema.columns[i].name :
        i \in {j \in 1..Len(schema.columns) : ColumnGet(schema.columns[j], "required", FALSE)}}

\* validation that forgets the schema-level required columns
ValidateRulesOnly(df, schema) ==
    ValidationRulesLoop(df, ColumnGet(schema, "validation_rules", <<>>), 1, <<>>)

validate_input_data(df, schema) ==
    IF RequiredColumns(schema) \ df.columns # {}
        THEN [ok |-> FALSE, log |-> <<LogRecord("ERROR", "missing required columns")>>]
    ELSE ValidationRulesLoop(df, ColumnGet(schema, "validation_rules", <<>>), 1, <<>>)

(***************************************************************************)
(* Fixed-width reader: parse_dat_line on one line of a .dat file.  A line  *)
(* is a sequence of characters; a schema column carries the keys name,     *)
(* length, data_type and required, the last three with defaults.           *)
(***************************************************************************)
\* a reader without the length test: a span that ends beyond the line gives
\* the characters the line still has
FieldValueUnchecked(line, position, field_length) ==
    IF position >= Len(line) THEN <<>>
    ELSE Strip(SubSeq(line, position + 1,
                      IF position + field_length > Len(line) THEN Len(line)
                      ELSE position + field_length))

\* '' when the span ends beyond the line, else line[position:position + field_length].strip()
FieldValue(line, position, field_length) ==
    IF position + field_length > Len(line) THEN <<>>
    ELSE Strip(SubSeq(line, position + 1, position + field_length))

\* the value stored for the field: float(field_value) if field_value else 0.0
\* for numeric (0.0 on ValueError), the text itself for every other type
TypedValue(data_type, field_value) ==
    IF data_type = "numeric"
        THEN IF field_value = <<>> THEN Zero ELSE OrZero(FloatOfText(field_value))
    ELSE StrV(field_value)

\* the warnings one column logs
FieldWarnings(line, position, field_length, data_type, required, field_value) ==
    (IF required /\ position + field_length > Len(line)
        THEN <<LogRecord("WARNING", "required field extends beyond line length")>>
     ELSE <<>>)
    \o (IF required /\ field_value = <<>>
            THEN <<LogRecord("WARNING", "required field is empty")>>
        ELSE <<>>)
    \o (IF data_type = "numeric" /\ field_value # <<>> /\ FloatOfText(field_value) = ValueError
            THEN <<LogRecord("WARNING", "invalid numeric value")>>
        ELSE <<>>)

\* record[field_name] = value
Put(dict, key, value) ==
    [f \in DOMAIN dict \cup {key} |-> IF f = key THEN value ELSE dict[f]]

\* parse_dat_line returned None
NoRecord == [f \in {"!none"} |-> EmptyStr]

\* the loop over input_schema['columns'], from column i on; a column without
\* its name key raises KeyError, which the outer except turns into None
RECURSIVE ParseLoop(_, _, _, _, _, _), ParseColumn(_, _, _, _, _, _, _, _, _, _)
ParseLoop(line, columns, i, position, record, log) ==
    IF i > Len(columns) THEN [record |-> record, log |-> log]
    ELSE IF "name" \notin DOMAIN columns[i]
        THEN [record |-> NoRecord,
              log |-> Append(log, LogRecord("ERROR", "error parsing line"))]
    ELSE ParseColumn(line, columns, i, position, record, log,
                     ColumnGet(columns[i], "length", 1),
                     ColumnGet(columns[i], "data_type", "string"),
                     ColumnGet(columns[i], "required", FALSE),
                     FieldValue(line, position, ColumnGet(columns[i], "length", 1)))

ParseColumn(line, columns, i, position, record, log, field_length, data_type, required, field_value) ==
    ParseLoop(line, columns, i + 1, position + field_length,
              Put(record, columns[i].name, TypedValue(data_type, field_value)),
              log \o FieldWarnings(line, position, field_length, data_type,
                                   required, field_value))

parse_dat_line(line, schema) ==
    ParseLoop(line, schema.columns, 1, 0, NoFields, <<>>)

\* f.readlines() of a file opened with open(file_path, 'r'): universal newlines
\* turn "\r\n" and "\r" into "\n", every line keeps its "\n", and only the last
\* line can be without one
RECURSIVE readlines(_)
readlines(text) ==
    IF text = <<>> THEN <<>>
    ELSE IF \A i \in 1..Len(text) : text[i] \notin {"\n", "\r"} THEN <<text>>
    ELSE LET end == CHOOSE i \in 1..Len(text) :
                        /\ text[i] \in {"\n", "\r"}
                        /\ \A j \in 1..(i - 1) : text[j] \notin {"\n", "\r"}
             next == IF text[end] = "\r" /\ end < Len(text) /\ text[end + 1] = "\n"
                        THEN end + 2 ELSE end + 1
         IN  <<SubSeq(text, 1, end - 1) \o <<"\n">>>> \o readlines(SubSeq(text, next, Len(text)))

\* line.rstrip('\n\r')
RECURSIVE RStripEol(_)
RStripEol(s) ==
    IF s # <<>> /\ s[Len(s)] \in {"\n", "\r"} THEN RStripEol(SubSeq(s, 1, Len(s) - 1)) ELSE s

\* not line.strip()
IsBlank(s) == Strip(s) = <<>>

\* one pass of the loop over the lines: a blank line is passed over, any other
\* is parsed, its warnings and errors logged and its record kept if truthy
\* (if record: neither None nor an empty dict)
ReadLine(raw, schema, records, log) ==
    IF IsBlank(RStripEol(raw)) THEN [records |-> records, log |-> log]
    ELSE [records |-> IF parse_dat_line(RStripEol(raw), schema).record \notin {NoRecord, NoFields}
                        THEN Append(records, parse_dat_line(RStripEol(raw), schema).record)
                        ELSE records,
          log |-> log \o parse_dat_line(RStripEol(raw), schema).log]

\* for line_num, line in enumerate(lines, 1), from line i on
RECURSIVE ReadLoop(_, _, _, _, _)
ReadLoop(lines, schema, i, records, log) ==
    IF i > Len(lines) THEN [records |-> records, log |-> log]
    ELSE ReadLoop(lines, schema, i + 1,
                  ReadLine(lines[i], schema, records, log).records,
                  ReadLine(lines[i], schema, records, log).log)

(***************************************************************************)
(* Conversion Orchestrator: convert_data on an in-memory table.            *)
(***************************************************************************)
VARIABLES
    input_schema,       \* self.input_schema
    output_schema,      \* self.output_schema
    processing_rules,   \* self.processing_rules
    input_df,           \* the table handed to convert_data
    pc,                 \* where convert_data is
    idx,                \* position of the next row of the loop
    transformed_rows,   \* the list the loop appends to
    output_df,          \* the returned table, once assembled
    log,                \* error and warning records
    arg_row, arg_rule, ret,  \* one call of a rule handler or of transform_row: arguments, return
    arg_condition,      \* the condition text of one call of evaluate_condition
    transformed, step,  \* one call of transform_row, taken step by step: the dict being built, the
                        \* position in transformation_rules followed by field_mappings
    date_str, once, twice,  \* one value through format_date, twice
    line, record,           \* one call of parse_dat_line: argument, return
    lines, line_num, records  \* read_dat_file: the file's lines, the loop's position, the records kept

vars == <<input_schema, output_schema, processing_rules, input_df, pc, idx,
          transformed_rows, output_df, log, arg_row, arg_rule, ret, arg_condition,
          transformed, step,
          date_str, once, twice, line, record, lines, line_num, records>>

config == <<input_schema, output_schema, processing_rules, input_df>>
ruleVars == <<arg_row, arg_rule, ret, arg_condition, transformed, step>>
dateVars == <<date_str, once, twice>>
parseVars == <<line, record, lines, line_num, records>>

NoTable == [columns |-> {}, rows |-> <<>>]

\* pd.DataFrame(rows, columns=all_columns): every row cut to the columns
Project(d, columns) == [f \in columns |-> IF f \in DOMAIN d THEN d[f] ELSE NaN]

\* pd.DataFrame(rows): the columns are the keys of the rows
DataFrameFromRecords(rows) ==
    [columns |-> UNION {DOMAIN rows[i] : i \in 1..Len(rows)},
     rows |-> [i \in 1..Len(rows) |->
                 Project(rows[i], UNION {DOMAIN rows[j] : j \in 1..Len(rows)})]]

\* read_dat_file of a file that opens: the table of the records kept, and the log
read_dat_file(content, schema) ==
    [df |-> DataFrameFromRecords(ReadLoop(content, schema, 1, <<>>, <<>>).records),
     log |-> ReadLoop(content, schema, 1, <<>>, <<>>).log]

\* the output table built without columns=
DataFrameOfKeys(rows, columns) == DataFrameFromRecords(rows)

DataFrame(rows, columns) ==
    [columns |-> columns, rows |-> [i \in 1..Len(rows) |-> Project(rows[i], columns)]]

\* validate_input_data returned True
ValidatePass ==
    /\ pc = "validate"
    /\ validate_input_data(input_df, input_schema).ok
    /\ log' = log \o validate_input_data(input_df, input_schema).log
    /\ pc' = "transform"
    /\ idx' = 1
    /\ UNCHANGED <<config, transformed_rows, output_df, ruleVars, dateVars, parseVars>>

\* validate_input_data returned False: raise ValueError
ValidateFail ==
    /\ pc = "validate"
    /\ ~validate_input_data(input_df, input_schema).ok
    /\ log' = log \o validate_input_data(input_df, input_schema).log
    /\ pc' = "raised"
    /\ UNCHANGED <<config, idx, transformed_rows, output_df, ruleVars, dateVars, parseVars>>

\* one pass of the loop over input_df.iterrows(): the row is appended
TransformRow ==
    /\ pc = "transform"
    /\ idx <= Len(input_df.rows)
    /\ LET transformed_row == transform_row(input_df.rows[idx], processing_rules, output_schema)
       IN  /\ transformed_row # Failed
           /\ transformed_rows' = Append(transformed_rows, transformed_row)
    /\ idx' = idx + 1
    /\ UNCHANGED <<config, pc, output_df, log, ruleVars, dateVars, parseVars>>

\* a loop without the try/except: the first failing row ends the run
AbortOnRowError ==
    /\ pc = "transform"
    /\ idx <= Len(input_df.rows)
    /\ transform_row(input_df.rows[idx], processing_rules, output_schema) = Failed
    /\ pc' = "raised"
    /\ UNCHANGED <<config, idx, transformed_rows, output_df, log, ruleVars, dateVars, parseVars>>

\* one pass of the loop: transform_row raised, the row is logged and left out
SkipRow ==
    /\ pc = "transform"
    /\ idx <= Len(input_df.rows)
    /\ transform_row(input_df.rows[idx], processing_rules, output_schema) = Failed
    /\ log' = Append(log, LogRecord("ERROR", "error transforming row"))
    /\ idx' = idx + 1
    /\ UNCHANGED <<config, pc, transformed_rows, output_df, ruleVars, dateVars, parseVars>>

\* after the loop: the output table is built and returned
Assemble ==
    /\ pc = "transform"
    /\ idx > Len(input_df.rows)
    /\ output_df' = DataFrame(transformed_rows, AllOutputFields(output_schema))
    /\ pc' = "done"
    /\ UNCHANGED <<config, idx, transformed_rows, log, ruleVars, dateVars, parseVars>>

Next == ValidatePass \/ ValidateFail \/ TransformRow \/ SkipRow \/ Assemble

(***************************************************************************)
(* Configurations and tables the runs start from                           *)
(***************************************************************************)
Logic(conditions, has_default, default_action) ==
    [conditions |-> conditions, has_default |-> has_default,
     default_action |-> default_action]

\* output_field "" stands for a rule without the key
Rule(rule_id, output_field, logic) ==
    [rule_id |-> rule_id, output_field |-> output_field, logic |-> logic]

Mapping(output_field, input_field, transformation, has_default, default_value) ==
    [output_field |-> output_field, input_field |-> input_field,
     transformation |-> transformation, has_default |-> has_default,
     default_value |-> default_value]

Column(name, length, data_type, required) ==
    [name |-> name, length |-> length, data_type |-> data_type, required |-> required]

NoLogic == Logic(<<>>, FALSE, NoFields)
SomeDefault == [f \in {"action"} |-> <<"S","I","G","N","_","B","A","S","E","D">>]

\* sequences over pool of length at most n
SeqsUpTo(pool, n) == UNION {[1..k -> pool] : k \in 0..n}

\* a LEAF_GL rule whose entry lacks its action key: KeyError on the rows it matches
KeylessLeafRule ==
    Rule("LEAF_GL_CALCULATION", "LEAF_GL",
         Logic(<<Entry(PAT_FLEX_JPY, {}, <<>>, EmptyStr, "")>>, FALSE, NoFields))

RulePool ==
    { Rule("LEAF_GL_CALCULATION", "LEAF_GL",
           Logic(<<Entry(PAT_FLEX_NOJPY, {"action"}, <<"A","P","P","E","N","D","_","N","O","J","P","Y","_","O","T","H","E","R">>, EmptyStr, "")>>,
                 FALSE, NoFields)),
      KeylessLeafRule,
      Rule("DRORCR_CALCULATION", "DRORCR", Logic(<<>>, TRUE, SomeDefault)),
      Rule("BALANCE_SIGN_CALCULATION", "", NoLogic) }

FieldMappingLists ==
    { <<>>,
      <<Mapping("SOURCE_GL", "LEAF_GL", "DIRECT_COPY", FALSE, EmptyStr),
        Mapping("DRORCR", "FACE_VALUE", "STRING_CONVERSION", FALSE, EmptyStr)>>,
      \* a DEFAULT_VALUE mapping without its default_value key: KeyError on every row
      <<Mapping("BRANCH", "", "DEFAULT_VALUE", FALSE, EmptyStr)>> }

OutputSchemas ==
    { [columns |-> {"LEAF_GL", "DRORCR", "BRANCH"}, additional_fields |-> {}],
      [columns |-> {"LEAF_GL"}, additional_fields |-> {"OPBALSIGN", "CLBALSIGN"}] }

ProcessingRules ==
    { [transformation_rules |-> rs, field_mappings |-> ms] :
        rs \in SeqsUpTo(RulePool, MaxRules), ms \in FieldMappingLists }

\* the values a column takes in the tables
ColumnValues(field) ==
    CASE field = "Currency_Flex" -> {StrV(<<"J","P","Y">>), StrV(<<"U","S","D">>)}
      [] field = "FACE_VALUE" -> {NumV(-5), NaN}
      [] OTHER -> {StrV(<<"L","1">>)}

RowsOver(cs) ==
    {r \in [cs -> UNION {ColumnValues(f) : f \in cs}] : \A f \in cs : r[f] \in ColumnValues(f)}

Tables(columnSets) ==
    UNION { {[columns |-> cs, rows |-> rows] : rows \in SeqsUpTo(RowsOver(cs), MaxRows)} :
              cs \in columnSets }

\* the first column leaves out its required key, which then counts as False
InputSchema(required, validation_rules) ==
    [columns |-> <<[name |-> "Currency_Flex", length |-> 3, data_type |-> "string"],
                   Column("FACE_VALUE", 4, "numeric", "FACE_VALUE" \in required),
                   Column("LEAF_GL", 2, "string", "LEAF_GL" \in required)>>,
     validation_rules |-> validation_rules]

Idle == <<>>

InitRun ==
    /\ pc = "validate"
    /\ idx = 0
    /\ transformed_rows = <<>>
    /\ output_df = NoTable
    /\ log = <<>>
    /\ arg_row = Idle /\ arg_rule = Idle /\ ret = Idle /\ arg_condition = Idle
    /\ date_str = Idle /\ once = Idle /\ twice = Idle
    /\ line = Idle /\ record = Idle
    /\ lines = Idle /\ line_num = 0 /\ records = <<>>
    /\ transformed = Idle /\ step = 0

(***************************************************************************)
(* Spec: convert_data over the processing configurations                   *)
(***************************************************************************)
Init ==
    /\ input_df \in Tables({{"Currency_Flex", "FACE_VALUE", "LEAF_GL"},
                             {"Currency_Flex", "LEAF_GL"}})
    /\ processing_rules \in ProcessingRules
    /\ input_schema \in {InputSchema({}, <<>>), InputSchema({"FACE_VALUE"}, <<>>)}
    /\ output_schema \in OutputSchemas
    /\ InitRun

Spec == Init /\ [][Next]_vars

(***************************************************************************)
(* SpecValidate: convert_data over the input schemas and tables that the   *)
(* Validator tells apart                                                   *)
(***************************************************************************)
\* validation rules of one input schema
MaxValidationRules == 2

ValidationRule(rule_type, fields, field, valid_values) ==
    [rule_type |-> rule_type, fields |-> fields, field |-> field,
     valid_values |-> valid_values]

ValidationRulePool ==
    { ValidationRule("required_fields", {"Currency_Flex", "FACE_VALUE"}, "", {}),
      ValidationRule("currency_validation", {}, "Currency_Flex", {StrV(<<"J","P","Y">>)}),
      ValidationRule("product_type_validation", {}, "FACE_VALUE", {NumV(-5)}),
      ValidationRule("length_validation", {}, "LEAF_GL", {}) }

InitValidate ==
    /\ input_df \in Tables({{"Currency_Flex", "FACE_VALUE", "LEAF_GL"},
                            {"Currency_Flex", "LEAF_GL"},
                            {"Currency_Flex"}})
    /\ input_schema \in
          { InputSchema(required, vrs) :
              required \in {{}, {"LEAF_GL"}, {"FACE_VALUE", "LEAF_GL"}},
              vrs \in SeqsUpTo(ValidationRulePool, MaxValidationRules) }
    /\ processing_rules \in
          { [transformation_rules |-> rs, field_mappings |-> <<>>] :
              rs \in {<<>>, <<KeylessLeafRule>>} }
    /\ output_schema \in OutputSchemas
    /\ InitRun

SpecValidate == InitValidate /\ [][Next]_vars

(***************************************************************************)
(* SpecRule: one call of apply_transformation_rule, over rows and rules    *)
(***************************************************************************)
\* a column the row does not have
Absent == [k |-> "absent", s |-> <<>>, n |-> 0]

\* the row with the given cells, the absent ones left out
MkRow(cells) == [f \in {g \in DOMAIN cells : cells[g] # Absent} |-> cells[f]]

EntryPool ==
    { Entry(PAT_JPY_DG, {"action", "value", "source_field"},
            <<"A","P","P","E","N","D","_","J","P","Y","_","D","_","G">>, StrV(<<"D">>), "ACCRUAL_ACCOUNT"),
      Entry(PAT_JPY_OTHER, {"action", "value", "source_field"},
            <<"A","P","P","E","N","D","_","J","P","Y","_","O","T","H","E","R">>, StrV(<<"C">>), "LEAF_GL"),
      Entry(PAT_NOJPY_DG, {"action", "value", "source_field"},
            <<"A","P","P","E","N","D","_","N","O","J","P","Y","_","D","_","G">>, StrV(<<"C">>), "TAKEDOWN_ACCOUNT"),
      Entry(PAT_NOJPY_OTHER, {"action", "value", "source_field"},
            <<"A","P","P","E","N","D","_","N","O","J","P","Y","_","O","T","H","E","R">>, StrV(<<"D">>), "FACE_VALUE"),
      \* a longer condition text around pattern 5, and an action naming no suffix
      Entry(<<"(">> \o PAT_FLEX_JPY \o <<")">>, {"action", "value", "source_field"},
            <<"K","E","E","P">>, StrV(<<"N">>), "Currency_Flex"),
      \* an entry with none of the three keys
      Entry(PAT_Y_LT, {}, <<>>, EmptyStr, ""),
      \* a condition text holding no pattern
      Entry(<<"P","R","O","D","U","C","T","_","T","Y","P","E"," ","=","="," ","'","D","'">>, {"action", "value", "source_field"},
            <<"A","P","P","E","N","D","_","J","P","Y","_","D","_","G">>, StrV(<<"D">>), "LEAF_GL") }

InitRule ==
    /\ arg_row \in
          { MkRow([CURRENCY_Cosmos |-> cc, PRODUCT_TYPE |-> pt, Currency_Flex |-> cf,
                   CONTRACT_STATUS |-> StrV(<<"Y">>), FACE_VALUE |-> fv,
                   LCY_FACE_VALUE |-> lcy, LEAF_GL |-> StrV(<<"L","E","A","F","0","0","1">>),
                   ACCRUAL_ACCOUNT |-> StrV(<<"A","C","C","R","0","0","1">>),
                   VALUE_DATE |-> StrV(<<"2","0","2","3","-","0","9","-","0","1">>), DEAL_DATE |-> Absent]) :
              cc \in {StrV(<<"J","P","Y">>), StrV(<<"U","S","D">>)},
              pt \in {StrV(<<"D">>), StrV(<<"L">>)},
              cf \in {StrV(<<"J","P","Y">>), StrV(<<"U","S","D">>)},
              fv \in {Absent, NumV(-1), NumV(0), Negated(Zero), StrV(<<"-","0">>), NumV(5), NaN,
                      StrV(<<" ","-","7"," ">>), StrV(<<"a","b","c">>), StrV(<<"n","a","n">>), EmptyStr},
              lcy \in {Absent, NumV(-500), NumV(3), NaN} }
    /\ arg_rule \in
          { Rule(id, "OUT", Logic(conds, FALSE, NoFields)) :
              id \in {"LEAF_GL_CALCULATION", "ACCRUAL_ACCOUNT_LOGIC", "DRORCR_CALCULATION"},
              conds \in SeqsUpTo(EntryPool, MaxConds) }
          \cup
          { Rule("DRORCR_CALCULATION", "OUT", Logic(conds, TRUE, da)) :
              conds \in SeqsUpTo(EntryPool, MaxConds), da \in {NoFields, SomeDefault} }
          \cup
          { Rule(id, "", NoLogic) :
              id \in {"BALANCE_SIGN_CALCULATION", "AMOUNT_CALCULATION", "DATE_FORMATTING",
                      "CUSTOM_RULE"} }
    /\ ret = Idle /\ arg_condition = Idle
    /\ pc = "call"
    /\ input_schema = Idle /\ output_schema = Idle /\ processing_rules = Idle
    /\ input_df = NoTable /\ idx = 0 /\ transformed_rows = <<>>
    /\ output_df = NoTable /\ log = <<>>
    /\ date_str = Idle /\ once = Idle /\ twice = Idle
    /\ line = Idle /\ record = Idle
    /\ lines = Idle /\ line_num = 0 /\ records = <<>>
    /\ transformed = Idle /\ step = 0

ApplyRule ==
    /\ pc = "call"
    /\ ret' = apply_transformation_rule(arg_row, arg_rule)
    /\ pc' = "returned"
    /\ UNCHANGED <<config, idx, transformed_rows, output_df, log, arg_row, arg_rule,
                   arg_condition, transformed, step,
                   dateVars, parseVars>>

SpecRule == InitRule /\ [][ApplyRule]_vars

(***************************************************************************)
(* SpecDate: one value through format_date, and the result through it again*)
(***************************************************************************)
\* pieces a date text is put together from
MaxPieces == 3

DatePieces == {<<"2","0","2","3">>, <<"2","0","2","4">>, <<"1">>, <<"2">>, <<"1","2">>, <<"2","9">>, <<"3","1">>}

\* texts of exactly n pieces, a separator before each piece but the first
RECURSIVE PieceTexts(_)
PieceTexts(n) ==
    IF n = 1 THEN DatePieces
    ELSE {t \o s \o p : t \in PieceTexts(n - 1), s \in {<<"-">>, <<"/">>, <<>>}, p \in DatePieces}

DateTexts ==
    {t \o tail : t \in UNION {PieceTexts(n) : n \in 1..MaxPieces}, tail \in {<<>>, <<" ","1","0",":","0","0">>, <<"x">>}}

InitDate ==
    /\ date_str \in
          {StrV(t) : t \in DateTexts}
          \cup {EmptyStr, NaN, Zero, NumV(20230901), StrV(<<"a","b","c","d","e","f","g","h">>), StrV(<<"a","b","c","d","e","f","g","h","i","j">>),
                StrV(<<"2","0","2","3","-","0","9","-","0","1">>), StrV(<<"2","0","2","3","0","9","0","1">>), StrV(<<"0","1","/","0","9","/","2","0","2","3">>),
                StrV(<<"0","9","/","3","0","/","2","0","2","3">>), StrV(<<"2","0","2","3","-","0","2","-","3","0">>)}
    /\ once = Idle /\ twice = Idle
    /\ pc = "call"
    /\ input_schema = Idle /\ output_schema = Idle /\ processing_rules = Idle
    /\ input_df = NoTable /\ idx = 0 /\ transformed_rows = <<>>
    /\ output_df = NoTable /\ log = <<>>
    /\ arg_row = Idle /\ arg_rule = Idle /\ ret = Idle /\ arg_condition = Idle
    /\ line = Idle /\ record = Idle
    /\ lines = Idle /\ line_num = 0 /\ records = <<>>
    /\ transformed = Idle /\ step = 0

FormatOnce ==
    /\ pc = "call"
    /\ once' = format_date(date_str)
    /\ pc' = "once"
    /\ UNCHANGED <<config, idx, transformed_rows, output_df, log, ruleVars, date_str, twice,
                   parseVars>>

FormatTwice ==
    /\ pc = "once"
    /\ twice' = format_date(once)
    /\ pc' = "twice"
    /\ UNCHANGED <<config, idx, transformed_rows, output_df, log, ruleVars, date_str, once,
                   parseVars>>

SpecDate == InitDate /\ [][FormatOnce \/ FormatTwice]_vars

(***************************************************************************)
(* SpecParse: one call of parse_dat_line, over lines and input schemas     *)
(***************************************************************************)
\* characters of one line
MaxLineLen == 4
\* columns of one input schema
MaxColumns == 2

\* the lines read_dat_file hands to parse_dat_line: blank ones never are
\* (and lines with a zero under a minus sign, which float() reads as -0.0)
Lines ==
    {text \in SeqsUpTo({" ", "7", "-"}, MaxLineLen) : ~IsBlank(text)}
    \cup {<<"0">>, <<"-","0">>, <<"-","0","0">>, <<"7","-","0">>, <<"-","0"," ","7">>}

\* names of a schema's columns, by position: distinct, as in a schema file
ColumnNames == <<"Currency_Flex", "FACE_VALUE", "LEAF_GL", "PRODUCT_TYPE", "VALUE_DATE">>

\* a column apart from its name; the keys left out take the defaults of .get
ColumnKinds ==
    { [length |-> 2, data_type |-> "string", required |-> TRUE],
      [length |-> 1, data_type |-> "numeric", required |-> FALSE],
      [length |-> 2, data_type |-> "numeric", required |-> TRUE],
      [length |-> 3, data_type |-> "date"],
      [length |-> 0, data_type |-> "string", required |-> TRUE],
      [required |-> FALSE] }

Named(kind, name) ==
    [k \in DOMAIN kind \cup {"name"} |-> IF k = "name" THEN name ELSE kind[k]]

\* a column without its name key
NamelessColumn == [length |-> 1, data_type |-> "string", required |-> FALSE]

InitParse ==
    /\ line \in Lines
    /\ input_schema \in
          { [columns |-> [i \in DOMAIN kinds |-> Named(kinds[i], ColumnNames[i])],
             validation_rules |-> <<>>] : kinds \in SeqsUpTo(ColumnKinds, MaxColumns) }
          \cup
          { [columns |-> <<Named(kind, ColumnNames[1]), NamelessColumn>>,
             validation_rules |-> <<>>] : kind \in ColumnKinds }
    /\ record = Idle
    /\ pc = "call"
    /\ output_schema = Idle /\ processing_rules = Idle
    /\ input_df = NoTable /\ idx = 0 /\ transformed_rows = <<>>
    /\ output_df = NoTable /\ log = <<>>
    /\ arg_row = Idle /\ arg_rule = Idle /\ ret = Idle /\ arg_condition = Idle
    /\ date_str = Idle /\ once = Idle /\ twice = Idle
    /\ lines = Idle /\ line_num = 0 /\ records = <<>>
    /\ transformed = Idle /\ step = 0

ParseLine ==
    /\ pc = "call"
    /\ record' = parse_dat_line(line, input_schema).record
    /\ log' = log \o parse_dat_line(line, input_schema).log
    /\ pc' = "returned"
    /\ UNCHANGED <<config, idx, transformed_rows, output_df, ruleVars, dateVars, line,
                   lines, line_num, records>>

SpecParse == InitParse /\ [][ParseLine]_vars

(***************************************************************************)
(* SpecRead: convert_data handed the path of a .dat file: read_dat_file    *)
(* builds the input table line by line, then the run goes on as in Spec    *)
(***************************************************************************)
\* pieces of one .dat file
MaxFileLines == 2

\* the characters of a .dat file, put together from n pieces: lines ended by
\* "\n", "\r\n" or "\r", and text without a line end
RECURSIVE FileTexts(_)
FileTexts(n) ==
    IF n = 0 THEN {<<>>}
    ELSE {text \o piece :
            text \in FileTexts(n - 1),
            piece \in { <<"7"," ","-","7">> \o <<"\n">>, <<"\n">>, <<" ", " ", "\n">>,
                        <<"7","7">> \o <<"\r", "\n">>, <<"-">>, <<"J","P","Y"," ">> \o <<"\n">>, <<"-","0">> \o <<"\n">>,
                        <<"7">> \o <<"\r">> }}

InitRead ==
    /\ input_schema \in
          { [columns |-> <<>>, validation_rules |-> <<>>],
            [columns |-> <<Column("Currency_Flex", 2, "string", TRUE),
                           Column("FACE_VALUE", 2, "numeric", TRUE)>>,
             validation_rules |-> <<>>],
            [columns |-> <<[name |-> "Currency_Flex", length |-> 3, data_type |-> "string"],
                           [name |-> "FACE_VALUE", data_type |-> "numeric"]>>],
            [columns |-> <<Column("Currency_Flex", 2, "string", TRUE), NamelessColumn>>,
             validation_rules |-> <<>>],
            [columns |-> <<Column("Currency_Flex", 3, "string", FALSE)>>,
             validation_rules |-> <<ValidationRule("currency_validation", {}, "Currency_Flex",
                                                   {StrV(<<"J","P","Y">>)})>>] }
    /\ processing_rules \in
          { [transformation_rules |-> <<>>, field_mappings |-> ms] : ms \in FieldMappingLists }
    /\ output_schema \in OutputSchemas
    /\ input_df = NoTable
    /\ pc = "read_dat_file"
    /\ idx = 0
    /\ transformed_rows = <<>>
    /\ output_df = NoTable
    /\ log = <<>>
    /\ arg_row = Idle /\ arg_rule = Idle /\ ret = Idle /\ arg_condition = Idle
    /\ date_str = Idle /\ once = Idle /\ twice = Idle
    /\ line = Idle /\ record = Idle
    /\ lines = Idle /\ line_num = 0 /\ records = <<>>
    /\ transformed = Idle /\ step = 0

\* open() or readlines() raised: the error is logged and raised again
ReadFail ==
    /\ pc = "read_dat_file"
    /\ log' = Append(log, LogRecord("ERROR", "error reading dat file"))
    /\ pc' = "raised"
    /\ UNCHANGED <<config, idx, transformed_rows, output_df, ruleVars, dateVars,
                   parseVars>>

\* lines = f.readlines()
ReadLines ==
    /\ pc = "read_dat_file"
    /\ \E content \in UNION {FileTexts(n) : n \in 0..MaxFileLines} : lines' = readlines(content)
    /\ pc' = "lines"
    /\ UNCHANGED <<config, idx, transformed_rows, output_df, log, ruleVars,
                   dateVars, line, record, line_num, records>>

\* one pass of the loop over the lines: a blank line is passed over
SkipBlankLine ==
    /\ pc = "lines"
    /\ line_num < Len(lines)
    /\ IsBlank(RStripEol(lines[line_num + 1]))
    /\ line_num' = line_num + 1
    /\ UNCHANGED <<config, pc, idx, transformed_rows, output_df, log, ruleVars,
                   dateVars, line, record, lines, records>>

\* one pass of the loop: the line is parsed, and its record kept if it is truthy
ParseFileLine ==
    /\ pc = "lines"
    /\ line_num < Len(lines)
    /\ ~IsBlank(RStripEol(lines[line_num + 1]))
    /\ line_num' = line_num + 1
    /\ line' = RStripEol(lines[line_num + 1])
    /\ record' = parse_dat_line(line', input_schema).record
    /\ log' = ReadLine(lines[line_num + 1], input_schema, records, log).log
    /\ records' = ReadLine(lines[line_num + 1], input_schema, records, log).records
    /\ UNCHANGED <<config, pc, idx, transformed_rows, output_df, ruleVars,
                   dateVars, lines>>

\* after the loop: df = pd.DataFrame(records), and convert_data goes on with it
BuildTable ==
    /\ pc = "lines"
    /\ line_num = Len(lines)
    /\ input_df' = DataFrameFromRecords(records)
    /\ pc' = "validate"
    /\ UNCHANGED <<input_schema, output_schema, processing_rules, idx, transformed_rows, output_df, log, ruleVars, dateVars,
                   parseVars>>

SpecRead == InitRead /\ [][ReadFail \/ ReadLines \/ SkipBlankLine \/ ParseFileLine \/ BuildTable \/ Next]_vars

(***************************************************************************)
(* SpecRow: one call of transform_row, over rows and processing rules that *)
(* write the same output fields more than once                             *)
(***************************************************************************)
\* field mappings of one configuration
MaxMappings == 2

RowRulePool ==
    { Rule("DRORCR_CALCULATION", "DRORCR", NoLogic),
      Rule("DRORCR_CALCULATION", "DRORCR",
           Logic(<<Entry(PAT_FLEX_NOJPY, {"action", "value", "source_field"},
                         <<"K","E","E","P">>, StrV(<<"D">>), "LEAF_GL")>>, FALSE, NoFields)),
      \* a scalar written to a field that the balance-sign group writes too
      Rule("ACCRUAL_ACCOUNT_LOGIC", "OPBALSIGN",
           Logic(<<Entry(PAT_FLEX_NOJPY, {"action", "value", "source_field"},
                         <<"K","E","E","P">>, StrV(<<"D">>), "LEAF_GL")>>, FALSE, NoFields)),
      Rule("BALANCE_SIGN_CALCULATION", "", NoLogic),
      \* a scalar result without an output_field
      Rule("LEAF_GL_CALCULATION", "", NoLogic),
      \* an unrecognized rule identifier
      Rule("CUSTOM_RULE", "DRORCR", NoLogic) }

RowMappingPool ==
    { Mapping("DRORCR", "", "DEFAULT_VALUE", TRUE, StrV(<<"X">>)),
      Mapping("DRORCR", "Currency_Flex", "DIRECT_COPY", FALSE, EmptyStr),
      Mapping("OPBALSIGN", "FACE_VALUE", "STRING_CONVERSION", FALSE, EmptyStr),
      Mapping("SOURCE_GL", "LEAF_GL", "DIRECT_COPY", FALSE, EmptyStr) }

InitRow ==
    /\ arg_row \in
          { [Currency_Flex |-> StrV(<<"U","S","D">>), FACE_VALUE |-> NumV(-5), LEAF_GL |-> StrV(<<"L","1">>)],
            [Currency_Flex |-> StrV(<<"J","P","Y">>), FACE_VALUE |-> NaN, LEAF_GL |-> StrV(<<"L","2">>)] }
    /\ processing_rules \in
          { [transformation_rules |-> rs, field_mappings |-> ms] :
              rs \in SeqsUpTo(RowRulePool, MaxRules),
              ms \in SeqsUpTo(RowMappingPool, MaxMappings) }
    /\ output_schema \in OutputSchemas
    /\ arg_rule = Idle /\ ret = Idle /\ arg_condition = Idle
    /\ pc = "call"
    /\ input_schema = Idle
    /\ input_df = NoTable /\ idx = 0 /\ transformed_rows = <<>>
    /\ output_df = NoTable /\ log = <<>>
    /\ date_str = Idle /\ once = Idle /\ twice = Idle
    /\ line = Idle /\ record = Idle
    /\ lines = Idle /\ line_num = 0 /\ records = <<>>
    /\ transformed = Idle /\ step = 0

TransformOne ==
    /\ pc = "call"
    /\ ret' = transform_row(arg_row, processing_rules, output_schema)
    /\ pc' = "returned"
    /\ UNCHANGED <<config, idx, transformed_rows, output_df, log, arg_row, arg_rule,
                   arg_condition, transformed, step,
                   dateVars, parseVars>>

SpecRow == InitRow /\ [][TransformOne]_vars

(***************************************************************************)
(* SpecCond: one call of evaluate_condition, over rows and condition texts *)
(***************************************************************************)
\* parentheses put before and after a condition text
MaxParens == 1

\* the catalog, in the order evaluate_condition tests it
Catalog ==
    <<PAT_JPY_DG, PAT_JPY_OTHER, PAT_NOJPY_DG, PAT_NOJPY_OTHER, PAT_FLEX_JPY,
      PAT_FLEX_NOJPY, PAT_Y_GE, PAT_Y_LT, PAT_A_GE, PAT_A_LT>>

RECURSIVE Repeat(_, _)
Repeat(c, n) == IF n = 0 THEN <<>> ELSE <<c>> \o Repeat(c, n - 1)

InitCond ==
    /\ arg_row \in
          { MkRow([CURRENCY_Cosmos |-> cc, PRODUCT_TYPE |-> pt, Currency_Flex |-> cf,
                   CONTRACT_STATUS |-> cs, FACE_VALUE |-> fv]) :
              cc \in {StrV(<<"J","P","Y">>), StrV(<<"U","S","D">>)},
              pt \in {StrV(<<"D">>), StrV(<<"L">>)},
              cf \in {StrV(<<"J","P","Y">>), StrV(<<"U","S","D">>)},
              cs \in {StrV(<<"Y">>), StrV(<<"A">>), StrV(<<"N">>)},
              fv \in {Absent, NumV(-1), NumV(0), NumV(5), NaN,
                      StrV(<<" ","-","7"," ">>), StrV(<<"a","b","c">>), StrV(<<"n","a","n">>), EmptyStr} }
    /\ arg_condition \in
          { Repeat("(", a) \o text \o Repeat(")", b) :
              a \in 0..MaxParens, b \in 0..MaxParens,
              text \in {Catalog[p] : p \in 1..Len(Catalog)}
                       \* texts that hold no catalog pattern, some of them near misses
                       \cup { <<>>, <<"P","R","O","D","U","C","T","_","T","Y","P","E"," ","=","="," ","'","D","'">>, <<"c","u","r","r","e","n","c","y","_","f","l","e","x"," ","=","="," ","'","j","p","y","'">>,
                              <<"C","u","r","r","e","n","c","y","_","F","l","e","x"," ","=","=","'","J","P","Y","'">>, <<"C","O","N","T","R","A","C","T","_","S","T","A","T","U","S"," ","=","="," ","'","Y","'">>,
                              <<"F","A","C","E","_","V","A","L","U","E"," ",">","="," ","0">>,
                              SubSeq(PAT_JPY_DG, 1, Len(PAT_JPY_DG) - 1), Tail(PAT_A_LT) }
                       \* texts that hold two catalog patterns
                       \cup { PAT_FLEX_NOJPY \o <<" ","A","N","D"," ">> \o PAT_JPY_DG,
                              PAT_Y_LT \o <<" ","O","R"," ">> \o PAT_Y_GE } }
    /\ arg_rule = Idle /\ ret = Idle
    /\ pc = "call"
    /\ input_schema = Idle /\ output_schema = Idle /\ processing_rules = Idle
    /\ input_df = NoTable /\ idx = 0 /\ transformed_rows = <<>>
    /\ output_df = NoTable /\ log = <<>>
    /\ date_str = Idle /\ once = Idle /\ twice = Idle
    /\ line = Idle /\ record = Idle
    /\ lines = Idle /\ line_num = 0 /\ records = <<>>
    /\ transformed = Idle /\ step = 0

EvaluateCondition ==
    /\ pc = "call"
    /\ ret' = evaluate_condition(arg_row, arg_condition)
    /\ pc' = "returned"
    /\ UNCHANGED <<config, idx, transformed_rows, output_df, log, arg_row, arg_rule,
                   arg_condition, transformed, step, dateVars, parseVars>>

SpecCond == InitCond /\ [][EvaluateCondition]_vars

(***************************************************************************)
(* SpecLoop: convert_data with each call of transform_row taken step by    *)
(* step: the dict is created, every rule and every mapping writes into it, *)
(* the unset fields are filled, and the dict is returned and appended      *)
(***************************************************************************)
InitLoop ==
    /\ input_df \in Tables({{"Currency_Flex", "FACE_VALUE", "LEAF_GL"},
                             {"Currency_Flex", "LEAF_GL"}})
    /\ processing_rules \in ProcessingRules
    /\ input_schema = InputSchema({"FACE_VALUE"}, <<>>)
    /\ output_schema \in OutputSchemas
    /\ InitRun

\* for idx, row in input_df.iterrows(): transform_row(row) is entered, transformed = {}
CallTransformRow ==
    /\ pc = "transform"
    /\ idx <= Len(input_df.rows)
    /\ arg_row' = input_df.rows[idx]
    /\ transformed' = NoFields
    /\ step' = 1
    /\ pc' = "transform_row"
    /\ UNCHANGED <<config, idx, transformed_rows, output_df, log, arg_rule, ret,
                   arg_condition, dateVars, parseVars>>

\* one pass of the loop over transformation_rules: the rule's result is merged
RuleStep ==
    /\ pc = "transform_row"
    /\ step <= Len(processing_rules.transformation_rules)
    /\ apply_transformation_rule(arg_row, processing_rules.transformation_rules[step]).t # "raise"
    /\ transformed' =
          MergeResult(transformed, processing_rules.transformation_rules[step].output_field,
                      apply_transformation_rule(arg_row,
                                                processing_rules.transformation_rules[step]))
    /\ step' = step + 1
    /\ UNCHANGED <<config, pc, idx, transformed_rows, output_df, log, arg_row, arg_rule, ret,
                   arg_condition, dateVars, parseVars>>

\* one pass of the loop over field_mappings: the mapping's value is written
MappingStep ==
    /\ pc = "transform_row"
    /\ step > Len(processing_rules.transformation_rules)
    /\ step <= Len(processing_rules.transformation_rules) + Len(processing_rules.field_mappings)
    /\ LET mapping ==
               processing_rules.field_mappings[step - Len(processing_rules.transformation_rules)]
       IN  /\ apply_field_mapping(arg_row, mapping).t # "raise"
           /\ transformed' = SetField(transformed, mapping.output_field,
                                      apply_field_mapping(arg_row, mapping))
    /\ step' = step + 1
    /\ UNCHANGED <<config, pc, idx, transformed_rows, output_df, log, arg_row, arg_rule, ret,
                   arg_condition, dateVars, parseVars>>

\* a transformer whose dict lives on the converter: every row already appended
\* is that same dict, and shows what the last call wrote
ReturnSharedRow ==
    /\ pc = "transform_row"
    /\ step > Len(processing_rules.transformation_rules) + Len(processing_rules.field_mappings)
    /\ transformed' = FillUnset(transformed, AllOutputFields(output_schema))
    /\ transformed_rows' = [i \in 1..(Len(transformed_rows) + 1) |-> transformed']
    /\ idx' = idx + 1
    /\ pc' = "transform"
    /\ UNCHANGED <<config, output_df, log, arg_row, arg_rule, ret, arg_condition, step,
                   dateVars, parseVars>>

\* after both loops: the unset output fields are filled, the dict is returned
\* and the caller appends it
ReturnRow ==
    /\ pc = "transform_row"
    /\ step > Len(processing_rules.transformation_rules) + Len(processing_rules.field_mappings)
    /\ transformed' = FillUnset(transformed, AllOutputFields(output_schema))
    /\ transformed_rows' = Append(transformed_rows, transformed')
    /\ idx' = idx + 1
    /\ pc' = "transform"
    /\ UNCHANGED <<config, output_df, log, arg_row, arg_rule, ret, arg_condition, step,
                   dateVars, parseVars>>

\* the rule or mapping at hand raised: the caller logs the row and goes on
RowRaised ==
    /\ pc = "transform_row"
    /\ \/ /\ step <= Len(processing_rules.transformation_rules)
          /\ apply_transformation_rule(arg_row,
                                       processing_rules.transformation_rules[step]).t = "raise"
       \/ /\ step > Len(processing_rules.transformation_rules)
          /\ step <= Len(processing_rules.transformation_rules)
                        + Len(processing_rules.field_mappings)
          /\ apply_field_mapping(
                 arg_row,
                 processing_rules.field_mappings[
                     step - Len(processing_rules.transformation_rules)]).t = "raise"
    /\ log' = Append(log, LogRecord("ERROR", "error transforming row"))
    /\ idx' = idx + 1
    /\ pc' = "transform"
    /\ UNCHANGED <<config, transformed_rows, output_df, ruleVars, dateVars, parseVars>>

SpecLoop ==
    InitLoop /\ [][ValidatePass \/ ValidateFail \/ CallTransformRow \/ RuleStep \/ MappingStep
                     \/ ReturnRow \/ RowRaised \/ Assemble]_vars
(***************************************************************************)
(* Properties                                                              *)
(***************************************************************************)
Min(a, b) == IF a < b THEN a ELSE b

\* C1: every mapping transform_row returns has exactly the keys
\* output-schema columns UNION additional fields: none missing, none extra.
C1_KeySetExact ==
    \A i \in 1..Len(transformed_rows) :
        DOMAIN transformed_rows[i] = AllOutputFields(output_schema)

MissingRequiredColumn == RequiredColumns(input_schema) \ input_df.columns # {}

\* C2: when a required input-schema column is absent from the table, the run
\* goes from validation straight to the raised error: no row is transformed
\* and no output table is produced.
C2_MissingRequiredColumnAborts ==
    MissingRequiredColumn =>
        /\ pc \in {"validate", "raised"}
        /\ idx = 0
        /\ transformed_rows = <<>>
        /\ output_df = NoTable

C2_Witness ==
    /\ pc = "raised"
    /\ MissingRequiredColumn
    /\ Len(input_df.rows) > 0
    /\ processing_rules.transformation_rules # <<>>
    /\ log = <<LogRecord("ERROR", "missing required columns")>>

\* a required_fields rule of the schema names a field the table lacks
RequiredFieldsRuleUnmet ==
    \E i \in 1..Len(input_schema.validation_rules) :
        /\ input_schema.validation_rules[i].rule_type = "required_fields"
        /\ input_schema.validation_rules[i].fields \ input_df.columns # {}

\* C3: with every schema-level required column present, validation passes
\* whatever the required_fields rules find; their findings are only logged.
C3_RequiredFieldsAdvisory ==
    (pc # "validate" /\ ~MissingRequiredColumn) => pc # "raised"

\* what apply_validation_rule does instead (line 146, return False): validation
\* fails, and convert_data raises, exactly when a schema-level required column
\* is missing or a required_fields rule names a field the table lacks.
RequiredFieldsRuleAborts ==
    pc # "validate" =>
        /\ (pc = "raised") = (MissingRequiredColumn \/ RequiredFieldsRuleUnmet)
        /\ pc = "raised" =>
              /\ log # <<>>
              /\ log[Len(log)].level = "ERROR"
              /\ transformed_rows = <<>>
              /\ output_df = NoTable

\* the rows left out of the output, as the log counts them
RowErrors == Len(SelectSeq(log, LAMBDA r : r.what = "error transforming row"))

\* a currency or product-type rule finds a value outside its permitted set
ValueRuleFinding ==
    \E i \in 1..Len(input_schema.validation_rules) :
        /\ input_schema.validation_rules[i].rule_type
              \in {"currency_validation", "product_type_validation"}
        /\ input_schema.validation_rules[i].field \in input_df.columns
        /\ \E j \in 1..Len(input_df.rows) :
              /\ input_df.rows[j][input_schema.validation_rules[i].field] # NaN
              /\ input_df.rows[j][input_schema.validation_rules[i].field]
                    \notin input_schema.validation_rules[i].valid_values

\* a currency or product-type rule names a column the table lacks
ValueRuleColumnAbsent ==
    \E i \in 1..Len(input_schema.validation_rules) :
        /\ input_schema.validation_rules[i].rule_type
              \in {"currency_validation", "product_type_validation"}
        /\ input_schema.validation_rules[i].field \notin input_df.columns

\* C4: a currency_validation or product_type_validation rule never fails
\* validation: with the required columns and required fields present, the run
\* passes validation and goes on to the rows whatever values the named column
\* holds and whether or not the table has it; a finding is logged as a warning.
C4_ValueRulesOnlyWarn ==
    (pc # "validate" /\ ~MissingRequiredColumn /\ ~RequiredFieldsRuleUnmet) =>
        /\ pc \in {"transform", "done"}
        /\ ValueRuleFinding = (\E i \in 1..Len(log) : log[i].level = "WARNING")
        /\ pc = "done" => Len(transformed_rows) + RowErrors = Len(input_df.rows)

C4_Witness ==
    /\ pc = "done"
    /\ ~MissingRequiredColumn
    /\ ValueRuleFinding
    /\ ValueRuleColumnAbsent
    /\ Len(transformed_rows) > 0

\* the row appended to the kept ones unless its transformation failed
AppendKept(kept, transformed_row) ==
    IF transformed_row = Failed THEN kept ELSE Append(kept, transformed_row)

\* the transformations of the first n rows that did not fail, in input order
RECURSIVE KeptRows(_)
KeptRows(n) ==
    IF n = 0 THEN <<>>
    ELSE AppendKept(KeptRows(n - 1),
                    transform_row(input_df.rows[n], processing_rules, output_schema))

\* C5: after validation the rows are taken in input order; at every point of
\* the loop the list built so far holds exactly the transformations of the
\* rows already visited that did not fail, in input order; each failed row is
\* logged once and left out; the run never ends in an error once validation
\* has passed, and the returned table holds the kept rows in that order.
C5_RowsInOrderFailuresSkipped ==
    /\ pc = "transform" =>
          /\ idx \in 1..(Len(input_df.rows) + 1)
          /\ transformed_rows = KeptRows(idx - 1)
          /\ RowErrors = (idx - 1) - Len(transformed_rows)
    /\ pc = "raised" => idx = 0 /\ transformed_rows = <<>>
    /\ pc = "done" =>
          /\ idx = Len(input_df.rows) + 1
          /\ transformed_rows = KeptRows(Len(input_df.rows))
          /\ RowErrors = Len(input_df.rows) - Len(transformed_rows)
          /\ output_df = DataFrame(KeptRows(Len(input_df.rows)),
                                   AllOutputFields(output_schema))

C5_Witness ==
    /\ pc = "done"
    /\ Len(input_df.rows) = 2
    /\ transform_row(input_df.rows[1], processing_rules, output_schema) = Failed
    /\ Len(output_df.rows) = 1
    /\ output_df.rows[1] =
          Project(transform_row(input_df.rows[2], processing_rules, output_schema),
                  AllOutputFields(output_schema))

\* the rule with its condition list cut after the first entry that matches
CutAfterFirstMatch(r, rule) ==
    [rule EXCEPT !.logic.conditions =
        SubSeq(rule.logic.conditions, 1,
               Min(FirstMatch(r, rule.logic.conditions, 1), Len(rule.logic.conditions)))]

\* C6: in the three condition-driven handlers the result is decided by the
\* first entry whose condition holds: the entries declared after it change
\* nothing, so the result is that of the rule cut after that entry.
C6_FirstMatchDecides ==
    (/\ pc = "returned"
     /\ arg_rule.rule_id \in {"LEAF_GL_CALCULATION", "ACCRUAL_ACCOUNT_LOGIC",
                              "DRORCR_CALCULATION"})
    => ret = apply_transformation_rule(arg_row, CutAfterFirstMatch(arg_row, arg_rule))

\* the suffix an action tag names
NamedSuffix(action) ==
    IF Contains(<<"N","O","J","P","Y","_","D","_","G">>, action) THEN <<"_","N","O","J","P","Y","_","D","_","G">>
    ELSE IF Contains(<<"N","O","J","P","Y","_","O","T","H","E","R">>, action) THEN <<"_","N","O","J","P","Y","_","O","T","H","E","R">>
    ELSE IF Contains(<<"J","P","Y","_","D","_","G">>, action) THEN <<"_","J","P","Y","_","D","_","G">>
    ELSE IF Contains(<<"J","P","Y","_","O","T","H","E","R">>, action) THEN <<"_","J","P","Y","_","O","T","H","E","R">>
    ELSE <<>>

LeafSuffixAt(conditions, i) ==
    IF i > Len(conditions)
        THEN ret = Scalar(RowGet(arg_row, "LEAF_GL", EmptyStr))
    ELSE ("action" \in conditions[i].keys /\ NamedSuffix(conditions[i].action) # <<>>)
            => ret = Scalar(StrV(Str(RowGet(arg_row, "LEAF_GL", EmptyStr))
                                 \o NamedSuffix(conditions[i].action)))

\* C7: LEAF_GL_CALCULATION returns LEAF_GL with the suffix the first matching
\* entry's action tag names (_JPY_D_G, _JPY_OTHER, _NOJPY_D_G, _NOJPY_OTHER),
\* and LEAF_GL unchanged when no condition matches.
C7_LeafSuffixNamedByAction ==
    (pc = "returned" /\ arg_rule.rule_id = "LEAF_GL_CALCULATION")
    => LeafSuffixAt(arg_rule.logic.conditions,
                    FirstMatch(arg_row, arg_rule.logic.conditions, 1))

\* a number as the spec reads it: the float of a number or of numeric text,
\* and 0 for a missing, empty or non-numeric value
AsNumber(f) == IF f.k = "num" THEN f.n ELSE 0

NumericReading(r, field) ==
    IF field \notin DOMAIN r THEN 0
    ELSE IF r[field].k = "str" THEN AsNumber(FloatOfText(r[field].s))
    ELSE AsNumber(r[field])

DrorcrAsSpecified(conditions, i) ==
    IF i <= Len(conditions)
        THEN "value" \in conditions[i].keys => ret = Scalar(conditions[i].value)
    ELSE IF ~arg_rule.logic.has_default
        THEN ret = Scalar(StrV(<<"C">>))
    ELSE DOMAIN arg_rule.logic.default_action # {}
            => ret = Scalar(StrV(IF NumericReading(arg_row, "FACE_VALUE") >= 0
                                     THEN <<"C">> ELSE <<"D">>))

\* C8: DRORCR_CALCULATION returns the first matching entry's value; with no
\* match and a default action it returns C when FACE_VALUE >= 0 (a missing or
\* non-numeric FACE_VALUE counting as 0) and D when FACE_VALUE < 0; with no
\* match and no default action it returns C.
C8_DrorcrDefaultBySign ==
    (pc = "returned" /\ arg_rule.rule_id = "DRORCR_CALCULATION")
    => DrorcrAsSpecified(arg_rule.logic.conditions,
                         FirstMatch(arg_row, arg_rule.logic.conditions, 1))

\* the amount as the spec reads it
AmountAsSpecified(r) ==
    IF RowGet(r, "Currency_Flex", EmptyStr) = StrV(<<"J","P","Y">>)
        THEN NumericReading(r, "LCY_FACE_VALUE")
    ELSE NumericReading(r, "FACE_VALUE")

BalanceAsSpecified(amount) ==
    /\ arg_rule.rule_id = "BALANCE_SIGN_CALCULATION" =>
          ret = Group([f \in {"OPBALSIGN", "CLBALSIGN"} |->
                          StrV(IF amount < 0 THEN <<"D">> ELSE <<"C">>)])
    /\ arg_rule.rule_id = "AMOUNT_CALCULATION" =>
          ret = Group([f \in {"AMOUNT", "OPBAL", "CLBAL"} |->
                          IF f = "AMOUNT" THEN NumV(IF amount < 0 THEN -amount ELSE amount)
                          ELSE NumV(amount)])

\* C9: both balance handlers work on the same amount (LCY_FACE_VALUE when
\* Currency_Flex is JPY, else FACE_VALUE, a missing or non-numeric value
\* counting as 0): OPBALSIGN = CLBALSIGN = D exactly when it is negative,
\* OPBAL = CLBAL = the amount, AMOUNT = its absolute value.
C9_BalanceHandlersAgree ==
    pc = "returned" => BalanceAsSpecified(AmountAsSpecified(arg_row))

\* C10: formatting a formatted date changes nothing.
C10_FormatDateIdempotent ==
    pc = "twice" => twice = once


\* offset of column k: the declared lengths of the columns before it, summed
RECURSIVE OffsetOf(_, _)
OffsetOf(columns, k) ==
    IF k = 1 THEN 0
    ELSE OffsetOf(columns, k - 1) + ColumnGet(columns[k - 1], "length", 1)

\* the empty value of a column's type
EmptyValueOf(column) ==
    IF ColumnGet(column, "data_type", "string") = "numeric" THEN Zero ELSE EmptyStr

\* what column k holds when read at its offset: the empty value when its span
\* ends beyond the line, else the characters of the span, stripped and typed
ValueAtOffset(text, columns, k) ==
    IF OffsetOf(columns, k) + ColumnGet(columns[k], "length", 1) > Len(text)
        THEN EmptyValueOf(columns[k])
    ELSE TypedValue(ColumnGet(columns[k], "data_type", "string"),
                    Strip(SubSeq(text, OffsetOf(columns, k) + 1,
                                 OffsetOf(columns, k) + ColumnGet(columns[k], "length", 1))))

AllColumnsNamed == \A k \in 1..Len(input_schema.columns) : "name" \in DOMAIN input_schema.columns[k]

\* C11: for every line and every schema whose columns are named, parsing
\* returns a record, however short the line; the record has exactly one key
\* per schema column; column k holds the value read at offset = sum of the
\* lengths of the columns before it, and the empty value of its type ('' or
\* 0.0) when its span ends beyond the line.
C11_ShortLineYieldsEmpty ==
    (pc = "returned" /\ AllColumnsNamed) =>
        /\ record # NoRecord
        /\ DOMAIN record = {input_schema.columns[k].name : k \in 1..Len(input_schema.columns)}
        /\ \A k \in 1..Len(input_schema.columns) :
              record[input_schema.columns[k].name] = ValueAtOffset(line, input_schema.columns, k)

\* a short line: the first column is read, the second ends beyond the line
C11_Witness ==
    /\ pc = "returned"
    /\ Len(input_schema.columns) = 2
    /\ AllColumnsNamed
    /\ ColumnGet(input_schema.columns[1], "length", 1) <= Len(line)
    /\ ColumnGet(input_schema.columns[1], "length", 1)
         + ColumnGet(input_schema.columns[2], "length", 1) > Len(line)
    /\ record[input_schema.columns[1].name] \notin {EmptyStr, Zero}
    /\ record[input_schema.columns[2].name] = Zero


\* C12: the table convert_data returns has exactly the columns
\* output-schema columns UNION additional fields, in the table and in each of
\* its rows, however many rows were kept or dropped and whatever other keys
\* the per-row mappings carry.
C12_OutputColumnsExact ==
    pc = "done" =>
        /\ output_df.columns = AllOutputFields(output_schema)
        /\ Len(output_df.rows) = Len(transformed_rows)
        /\ \A i \in 1..Len(output_df.rows) :
              DOMAIN output_df.rows[i] = AllOutputFields(output_schema)

\* a run that dropped a row and kept one whose mapping has keys outside the schema
C12_Witness ==
    /\ pc = "done"
    /\ Len(transformed_rows) < Len(input_df.rows)
    /\ \E i \in 1..Len(transformed_rows) :
          DOMAIN transformed_rows[i] \ AllOutputFields(output_schema) # {}

\* rule identifiers whose handler returns one value, and a group of fields
ScalarRuleIds == {"LEAF_GL_CALCULATION", "ACCRUAL_ACCOUNT_LOGIC", "DRORCR_CALCULATION"}
GroupRuleIds == {"BALANCE_SIGN_CALCULATION", "DATE_FORMATTING", "AMOUNT_CALCULATION"}

\* the fields a transformation rule writes for row r: the keys of its field
\* group, or its declared output_field; none for a scalar without an
\* output_field and for an unrecognized rule identifier
FieldsWrittenBy(r, rule) ==
    IF rule.rule_id \in GroupRuleIds THEN DOMAIN apply_transformation_rule(r, rule).d
    ELSE IF rule.rule_id \in ScalarRuleIds /\ rule.output_field # "" THEN {rule.output_field}
    ELSE {}

\* the value a transformation rule writes to field f
ValueWrittenBy(r, rule, f) ==
    IF rule.rule_id \in GroupRuleIds THEN apply_transformation_rule(r, rule).d[f]
    ELSE apply_transformation_rule(r, rule).v

\* positions of the rules, and of the mappings, that write field f
RuleWriters(f) ==
    {i \in 1..Len(processing_rules.transformation_rules) :
        f \in FieldsWrittenBy(arg_row, processing_rules.transformation_rules[i])}

MappingWriters(f) ==
    {i \in 1..Len(processing_rules.field_mappings) :
        processing_rules.field_mappings[i].output_field = f}

\* the last position of a non-empty set of positions
LastOf(positions) == CHOOSE i \in positions : \A j \in positions : j <= i

\* the value of field f when later writes win and mappings come after rules
LastWriteValue(f) ==
    IF MappingWriters(f) # {}
        THEN apply_field_mapping(arg_row,
                 processing_rules.field_mappings[LastOf(MappingWriters(f))]).v
    ELSE IF RuleWriters(f) # {}
        THEN ValueWrittenBy(arg_row,
                 processing_rules.transformation_rules[LastOf(RuleWriters(f))], f)
    ELSE EmptyStr

\* C13: in the mapping transform_row returns, a field written by a field
\* mapping holds the value of the last mapping that writes it, whatever the
\* rules wrote; a field written only by rules holds the value of the last rule
\* that writes it; a scalar without output_field and an unrecognized rule
\* write nothing; the other fields are the unset schema fields, left ''.
C13_RulesThenMappingsLastWins ==
    (pc = "returned" /\ ret # Failed) =>
        /\ DOMAIN ret =
              AllOutputFields(output_schema)
              \cup {processing_rules.field_mappings[i].output_field :
                       i \in 1..Len(processing_rules.field_mappings)}
              \cup UNION {FieldsWrittenBy(arg_row, processing_rules.transformation_rules[i]) :
                             i \in 1..Len(processing_rules.transformation_rules)}
        /\ \A f \in DOMAIN ret : ret[f] = LastWriteValue(f)

\* a field written by two rules with different values and then by a mapping
\* with a third; and, in another field, a scalar written over a group member
C13_Witness ==
    /\ pc = "returned"
    /\ ret # Failed
    /\ Len(processing_rules.transformation_rules) = 2
    /\ RuleWriters("DRORCR") = {1, 2}
    /\ ValueWrittenBy(arg_row, processing_rules.transformation_rules[1], "DRORCR")
          # ValueWrittenBy(arg_row, processing_rules.transformation_rules[2], "DRORCR")
    /\ MappingWriters("DRORCR") # {}
    /\ ret["DRORCR"]
          # ValueWrittenBy(arg_row, processing_rules.transformation_rules[2], "DRORCR")

\* two rules write a field that no mapping writes: the second one's value stays
C13_WitnessRules ==
    /\ pc = "returned"
    /\ ret # Failed
    /\ RuleWriters("OPBALSIGN") = {1, 2}
    /\ MappingWriters("OPBALSIGN") = {}
    /\ ValueWrittenBy(arg_row, processing_rules.transformation_rules[1], "OPBALSIGN")
          # ret["OPBALSIGN"]

\* the catalog patterns a condition text holds as substrings
PatternsIn(text) == {p \in 1..Len(Catalog) : Contains(Catalog[p], text)}

\* the predicate of catalog pattern p on row r, FACE_VALUE read as a number
\* with a missing, empty or non-numeric value counting as 0
PatternHolds(p, r) ==
    CASE p = 1 -> RowGet(r, "CURRENCY_Cosmos", EmptyStr) = StrV(<<"J","P","Y">>)
                    /\ InDG(RowGet(r, "PRODUCT_TYPE", EmptyStr))
      [] p = 2 -> RowGet(r, "CURRENCY_Cosmos", EmptyStr) = StrV(<<"J","P","Y">>)
                    /\ ~InDG(RowGet(r, "PRODUCT_TYPE", EmptyStr))
      [] p = 3 -> RowGet(r, "CURRENCY_Cosmos", EmptyStr) # StrV(<<"J","P","Y">>)
                    /\ InDG(RowGet(r, "PRODUCT_TYPE", EmptyStr))
      [] p = 4 -> RowGet(r, "CURRENCY_Cosmos", EmptyStr) # StrV(<<"J","P","Y">>)
                    /\ ~InDG(RowGet(r, "PRODUCT_TYPE", EmptyStr))
      [] p = 5 -> RowGet(r, "Currency_Flex", EmptyStr) = StrV(<<"J","P","Y">>)
      [] p = 6 -> RowGet(r, "Currency_Flex", EmptyStr) # StrV(<<"J","P","Y">>)
      [] p = 7 -> RowGet(r, "CONTRACT_STATUS", EmptyStr) = StrV(<<"Y">>)
                    /\ NumericReading(r, "FACE_VALUE") >= 0
      [] p = 8 -> RowGet(r, "CONTRACT_STATUS", EmptyStr) = StrV(<<"Y">>)
                    /\ NumericReading(r, "FACE_VALUE") < 0
      [] p = 9 -> RowGet(r, "CONTRACT_STATUS", EmptyStr) = StrV(<<"A">>)
                    /\ NumericReading(r, "FACE_VALUE") >= 0
      [] OTHER -> RowGet(r, "CONTRACT_STATUS", EmptyStr) = StrV(<<"A">>)
                    /\ NumericReading(r, "FACE_VALUE") < 0

\* C14: evaluate_condition returns a boolean for every row and condition
\* text; a text that holds none of the ten catalog patterns evaluates to
\* false; a text that holds exactly one evaluates to that pattern's predicate
\* on the row.
C14_ConditionEvaluatorClosed ==
    pc = "returned" =>
        /\ ret \in BOOLEAN
        /\ PatternsIn(arg_condition) = {} => ret = FALSE
        /\ \A p \in 1..Len(Catalog) :
              PatternsIn(arg_condition) = {p} => ret = PatternHolds(p, arg_row)

\* C14 on the rows whose FACE_VALUE is NaN or the text nan left aside
C14_ClosedApartFromNaN ==
    (pc = "returned" /\ RowGet(arg_row, "FACE_VALUE", Zero) # NaN
                     /\ RowGet(arg_row, "FACE_VALUE", Zero) # StrV(<<"n","a","n">>)) =>
        /\ ret \in BOOLEAN
        /\ PatternsIn(arg_condition) = {} => ret = FALSE
        /\ \A p \in 1..Len(Catalog) :
              PatternsIn(arg_condition) = {p} => ret = PatternHolds(p, arg_row)

\* a condition text that holds only the sign pattern p, on a row whose
\* CONTRACT_STATUS is the one the pattern names
SignPatternCase(p, status) ==
    /\ PatternsIn(arg_condition) = {p}
    /\ RowGet(arg_row, "CONTRACT_STATUS", EmptyStr) = StrV(status)

\* C15: in patterns 7 to 10, on a row whose CONTRACT_STATUS is the pattern's,
\* FACE_VALUE is read as a number with a missing, empty or non-numeric value
\* counting as 0.0: the >= 0 pattern is true exactly when that number is >= 0
\* and the < 0 pattern exactly when it is < 0, so that one of the two is true
\* on every such row and FACE_VALUE = 0 is on the >= 0 side.
C15_MissingFaceValueIsZero ==
    pc = "returned" =>
        /\ SignPatternCase(7, <<"Y">>) => ret = (NumericReading(arg_row, "FACE_VALUE") >= 0)
        /\ SignPatternCase(8, <<"Y">>) => ret = (NumericReading(arg_row, "FACE_VALUE") < 0)
        /\ SignPatternCase(9, <<"A">>) => ret = (NumericReading(arg_row, "FACE_VALUE") >= 0)
        /\ SignPatternCase(10, <<"A">>) => ret = (NumericReading(arg_row, "FACE_VALUE") < 0)

\* the output of a row taken by itself, the configuration fixed
OutputOf(r) == transform_row(r, processing_rules, output_schema)

\* a call of transform_row ends: it returns its dict, or it raised
CallEnds == pc = "transform_row" /\ pc' = "transform"

\* C16: with the transformer taken step by step, no step changes the input
\* table or the schema and rule configuration, and the row being transformed
\* stays the row the loop is at. The rows already produced change only when
\* a call ends: then they are kept as they are, and what is appended is the
\* output of the visited row transformed by itself from an empty dict,
\* whatever its position and whatever the calls before it left behind;
\* nothing is appended exactly when that row's transformation fails.
C16_RowsIndependent ==
    [][/\ config' = config
       /\ pc' = "transform_row" => arg_row' = input_df.rows[idx']
       /\ IF CallEnds
              THEN IF OutputOf(input_df.rows[idx]) = Failed
                       THEN transformed_rows' = transformed_rows
                   ELSE transformed_rows' =
                            Append(transformed_rows, OutputOf(input_df.rows[idx]))
          ELSE transformed_rows' = transformed_rows]_vars

\* a finished run over two different rows, both kept, with different outputs,
\* the second built in several steps after the first call left its dict behind
C16_Witness ==
    /\ pc = "done"
    /\ Len(input_df.rows) = 2
    /\ input_df.rows[1] # input_df.rows[2]
    /\ Len(transformed_rows) = 2
    /\ transformed_rows[1] # transformed_rows[2]
    /\ transformed_rows[2] = OutputOf(input_df.rows[2])
    /\ transformed = transformed_rows[2]
    /\ step > 2

====
